---------------------------- MODULE Spec2Model ----------------------------
(***************************************************************************)
(* The /models catalog of src/api/routers/model.py: a process-wide TTL     *)
(* cache (MODELS_CACHE) in front of an aggregation of two Bedrock listings *)
(* (foundation models, cross-region inference profiles), normalised to one *)
(* record shape and deduplicated by id.                                    *)
(*                                                                         *)
(* Every request is a worker w running _build_models_payload; its position *)
(* in the function is pc[w].  The clock, the provider's listings and the   *)
(* provider's failures are the environment.                                *)
(***************************************************************************)
EXTENDS Integers, Sequences, FiniteSets, TLC

\* model.py:12
CACHE_TTL_SECONDS == 300

\* ----- bounds of the model
\* clock advances in one behaviour
MaxTicks == 2
\* length of the base-model listing drawn by InitAgg
MaxModels == 2
\* number of profile pages drawn by InitAgg (one record at most per page)
MaxPages == 1

\* ----- the environment's values
\* the workers of the server's thread pool
Workers == {1, 2}
\* the clock reading (seconds) when the process starts
StartTimes == {1000}
\* seconds the clock may advance by in one step
TickSteps == {1, 299}
\* Python's None, and a present optional value
None == <<>>
Some(v) == <<v>>

\* modelId values of a listing; "" stands for an absent or empty modelId
ModelIdValues == {"", "a", "b"}
\* inferenceProfileId / inferenceProfileArn values; "" is absent or empty,
\* "b" is also a modelId and "c" is not
ProfileIdValues == {"", "b", "c"}
\* createdAt of a profile: absent, or a datetime in milliseconds since epoch
CreatedAtValues == {None, Some(500250)}

VARIABLES
    MODELS_CACHE,   \* [data, ts]: the module-level cache entry
    now,            \* the wall clock, in seconds (what _now() returns)
    ticks,          \* how many times the clock has advanced
    upstream,       \* what the provider lists now: [models, pages]
    pc,             \* pc[w]: where worker w stands in _build_models_payload
    force_refresh,  \* force_refresh[w]: the argument of w's call
    fm_entries,     \* fm_entries[w]: result of _list_foundation_models
    out,            \* out[w]: the list _list_cross_region_profiles builds
    page,           \* page[w]: the next page the paginator will request
    payload,        \* payload[w]: None, or Some(the dict w has built)
    result,         \* result[w]: None, or Some(the dict w returned)
    entry,          \* entry[w]: MODELS_CACHE, and its state, when w's call began
    calls,          \* calls[w]: upstream API calls w made for this request
    history,        \* the last completed recomputation, and what followed it
    prov            \* which request wrote what: [data, ts, full, after, earlier]

vars == << MODELS_CACHE, now, ticks, upstream, pc, force_refresh, fm_entries,
           out, page, payload, result, entry, calls, history, prov >>

\* ----- pure helpers

\* all sequences over S of length at most n
RECURSIVE SeqsUpTo(_, _)
SeqsUpTo(S, n) ==
    IF n = 0 THEN { <<>> }
    ELSE LET shorter == SeqsUpTo(S, n - 1)
         IN  shorter \cup { Append(s, x) : s \in { q \in shorter : Len(q) = n - 1 }, x \in S }

\* the canonical record both listings are normalised to
ModelEntry(id, created) ==
    [id |-> id, created |-> created, object |-> "model", owned_by |-> "bedrock"]

\* int(created_at.timestamp()): a datetime in milliseconds, cut to seconds
Timestamp(created_at) == created_at \div 1000

\* NormalizeModels with break for continue: the loop ends at the first summary
\* without a modelId
RECURSIVE NormalizeModelsBreak(_, _)
NormalizeModelsBreak(summaries, t) ==
    IF summaries = <<>> THEN <<>>
    ELSE LET m == Head(summaries)
             mid == m.modelId
         IN  IF mid = "" THEN <<>>
             ELSE << ModelEntry(mid, t) >> \o NormalizeModelsBreak(Tail(summaries), t)

\* _list_foundation_models, the loop over resp["modelSummaries"]
RECURSIVE NormalizeModels(_, _)
NormalizeModels(summaries, t) ==
    IF summaries = <<>> THEN <<>>
    ELSE LET m == Head(summaries)
             mid == m.modelId
         IN  (IF mid = "" THEN <<>> ELSE << ModelEntry(mid, t) >>)
             \o NormalizeModels(Tail(summaries), t)

\* NormalizeProfile with elif for the second if: the ARN only when there is no id
NormalizeProfileIdOrArn(s, t) ==
    LET pid == s.inferenceProfileId
        arn == s.inferenceProfileArn
        created_at == s.createdAt
        created_ts == IF created_at # None THEN Timestamp(created_at[1]) ELSE t
    IN  IF pid # "" THEN << ModelEntry(pid, created_ts) >>
        ELSE IF arn # "" THEN << ModelEntry(arn, created_ts) >> ELSE <<>>

\* _list_cross_region_profiles, the body of the loop for one summary s
NormalizeProfile(s, t) ==
    LET pid == s.inferenceProfileId
        arn == s.inferenceProfileArn
        created_at == s.createdAt
        created_ts == IF created_at # None THEN Timestamp(created_at[1]) ELSE t
    IN  (IF pid # "" THEN << ModelEntry(pid, created_ts) >> ELSE <<>>)
        \o (IF arn # "" THEN << ModelEntry(arn, created_ts) >> ELSE <<>>)

\* _list_cross_region_profiles, the inner loop over one page
RECURSIVE NormalizePage(_, _)
NormalizePage(summaries, t) ==
    IF summaries = <<>> THEN <<>>
    ELSE NormalizeProfile(Head(summaries), t) \o NormalizePage(Tail(summaries), t)

\* _build_models_payload, the seen/data loop over fm_entries + xreg_entries
RECURSIVE DedupFrom(_, _, _)
DedupFrom(items, seen, data) ==
    IF items = <<>> THEN data
    ELSE LET item == Head(items)
         IN  IF item.id \in seen
             THEN DedupFrom(Tail(items), seen, data)
             ELSE DedupFrom(Tail(items), seen \cup {item.id}, Append(data, item))

\* Concat with the profiles first
ConcatProfilesFirst(fm, xreg) == xreg \o fm

\* fm_entries + xreg_entries
Concat(fm, xreg) == fm \o xreg

\* Dedup without the test of seen
DedupNone(fm, xreg) == Concat(fm, xreg)

\* Dedup as a dict keyed by id would do it: the place of the first record of
\* an id, the content of the last
DedupLastWins(fm, xreg) ==
    LET items == Concat(fm, xreg)
        first == DedupFrom(items, {}, <<>>)
        last(id) == items[CHOOSE i \in DOMAIN items :
                            /\ items[i].id = id
                            /\ \A j \in DOMAIN items : items[j].id = id => j <= i]
    IN  [i \in DOMAIN first |-> last(first[i].id)]

\* Dedup with each record compared with the one before it only
DedupAdjacent(fm, xreg) ==
    LET items == Concat(fm, xreg)
        keep == { i \in DOMAIN items : i = 1 \/ items[i].id # items[i - 1].id }
    IN  [k \in 1..Cardinality(keep) |->
            items[CHOOSE i \in keep : Cardinality({ j \in keep : j < i }) = k - 1]]

\* the whole of the seen/data loop
Dedup(fm, xreg) == DedupFrom(Concat(fm, xreg), {}, <<>>)

Payload(data) == [object |-> "list", data |-> data]

\* Truthy with the test put on the list of records: an empty catalog counts
\* as nothing stored
TruthyNonEmpty(d) == d # None /\ Len(d[1].data) > 0

\* Python truth of MODELS_CACHE["data"]: None is false, and a payload dict,
\* which always holds the two keys "object" and "data", is true
Truthy(d) == d # None

\* CacheHit with the age test turned round
CacheHitAgeInverted(force, cache, t) ==
    /\ ~force
    /\ Truthy(cache.data)
    /\ t - cache.ts > CACHE_TTL_SECONDS

\* CacheHit with an entry of exactly CACHE_TTL_SECONDS still served
CacheHitInclusive(force, cache, t) ==
    /\ ~force
    /\ Truthy(cache.data)
    /\ t - cache.ts <= CACHE_TTL_SECONDS

\* CacheHit without the test of force_refresh
CacheHitIgnoringForce(force, cache, t) ==
    /\ Truthy(cache.data)
    /\ t - cache.ts < CACHE_TTL_SECONDS

\* the condition of the if at the top of _build_models_payload
CacheHit(force, cache, t) ==
    /\ ~force
    /\ Truthy(cache.data)
    /\ t - cache.ts < CACHE_TTL_SECONDS

\* the state of the cache entry at clock reading t: Empty while no payload
\* was ever stored, then Fresh while younger than 300 seconds, Stale after
CacheState(cache, t) ==
    IF cache.data = None THEN "Empty"
    ELSE IF t - cache.ts < 300 THEN "Fresh" ELSE "Stale"

\* ----- the provider's listings

ModelSummary(mid) == [modelId |-> mid]

ProfileSummary(pid, arn, created_at) ==
    [inferenceProfileId |-> pid, inferenceProfileArn |-> arn, createdAt |-> created_at]

\* the listings the provider may hold while the service runs (Spec): an empty
\* account, a one-page account, and a three-page account with an unusable
\* model summary, duplicates and ids that collide across the two listings
ServiceUpstreams ==
    { [models |-> <<>>, pages |-> << <<>> >>],
      [models |-> << ModelSummary("a") >>,
       pages  |-> << << ProfileSummary("b", "c", None) >> >>],
      [models |-> << ModelSummary("b"), ModelSummary(""), ModelSummary("a"),
                     ModelSummary("b") >>,
       pages  |-> << << ProfileSummary("a", "a", Some(500250)) >>,
                     << ProfileSummary("d", "", Some(500250)) >>,
                     << ProfileSummary("", "e", Some(500250)),
                        ProfileSummary("", "", Some(500250)) >> >>] }

\* every listing within the bounds (SpecAgg): the inputs of one aggregation
\* the listings the provider may hold while requests interleave (SpecConc)
ConcUpstreams ==
    { [models |-> << ModelSummary("a") >>, pages |-> << <<>> >>],
      [models |-> <<>>,
       pages  |-> << << ProfileSummary("c", "", Some(500250)) >> >>] }

ModelSummaries == { ModelSummary(mid) : mid \in ModelIdValues }

ProfileSummaries ==
    { ProfileSummary(pid, arn, c) :
        pid \in ProfileIdValues, arn \in ProfileIdValues, c \in CreatedAtValues }

AggUpstreams ==
    { [models |-> m, pages |-> p] :
        m \in SeqsUpTo(ModelSummaries, MaxModels),
        p \in SeqsUpTo(SeqsUpTo(ProfileSummaries, 1), MaxPages) \ { <<>> } }

\* ----- the request: _build_models_payload, step by step

\* calls[w], entry[w] and history only record what happened: no guard and no
\* value of the program depends on them.
\* calls[w] before the first call: listings requested, pages requested, and
\* how many of those requests raised
NoCalls == [models |-> 0, pages |-> 0, failed |-> 0]

\* entry[w] while w serves no request
NoEntry == [data |-> None, ts |-> 0, state |-> "Empty"]

\* prov records, of the entry in the cache: the worker whose request stored
\* data and the one whose request stored ts (0: nobody yet), the catalog that
\* request had computed (full), and the workers whose request had all its
\* listings in hand, and nothing stored yet, before the request that stored
\* data asked for its first listing (after); and, of each worker, the workers
\* that stood so when its request asked for its first listing (earlier)
NoProv ==
    [data |-> 0, ts |-> 0, full |-> None, after |-> {},
     earlier |-> [w \in Workers |-> {}]]

\* w's request is over: it is before or after nothing any more
Forget(w) ==
    [prov EXCEPT !.after = @ \ {w},
                 !.earlier = [u \in Workers |->
                                IF u = w THEN {} ELSE prov.earlier[u] \ {w}]]

\* w's request stores data: what its aggregation comes to is the merge of all
\* it has listed
Wrote(w) ==
    [prov EXCEPT !.data = w,
                 !.full = Some(Payload(Dedup(fm_entries[w], out[w]))),
                 !.after = { u \in prov.earlier[w] : pc[u] = "merge" }]

\* list_models -> _build_models_payload: the cache test of the first if
Begin(w) ==
    /\ pc[w] = "idle"
    /\ \E force \in BOOLEAN :
         /\ force_refresh' = [force_refresh EXCEPT ![w] = force]
         /\ \/ /\ CacheHit(force, MODELS_CACHE, now)
               /\ pc' = [pc EXCEPT ![w] = "cached"]
            \/ /\ ~CacheHit(force, MODELS_CACHE, now)
               /\ pc' = [pc EXCEPT ![w] = "list_fm"]
    /\ entry' = [entry EXCEPT ![w] =
                    [data |-> MODELS_CACHE.data, ts |-> MODELS_CACHE.ts,
                     state |-> CacheState(MODELS_CACHE, now)]]
    /\ calls' = [calls EXCEPT ![w] = NoCalls]
    /\ UNCHANGED << MODELS_CACHE, now, ticks, upstream, fm_entries, out, page,
                    payload, result, history, prov >>

\* return MODELS_CACHE["data"]
ReturnCached(w) ==
    /\ pc[w] = "cached"
    /\ result' = [result EXCEPT ![w] = MODELS_CACHE.data]
    /\ pc' = [pc EXCEPT ![w] = "returned"]
    /\ UNCHANGED << MODELS_CACHE, now, ticks, upstream, force_refresh, fm_entries,
                    out, page, payload, entry, calls, history, prov >>

\* Raise with the cache entry reset on the way out
RaiseClearing(w) ==
    /\ pc' = [pc EXCEPT ![w] = "raised"]
    /\ fm_entries' = [fm_entries EXCEPT ![w] = <<>>]
    /\ out' = [out EXCEPT ![w] = <<>>]
    /\ page' = [page EXCEPT ![w] = 0]
    /\ result' = [result EXCEPT ![w] = None]
    /\ history' = [history EXCEPT !.failed_forced = @ \/ force_refresh[w]]
    /\ prov' = Forget(w)
    /\ MODELS_CACHE' = [data |-> None, ts |-> 0]
    /\ UNCHANGED payload

\* Raise with the entry marked expired on the way out
RaiseExpiring(w) ==
    /\ pc' = [pc EXCEPT ![w] = "raised"]
    /\ fm_entries' = [fm_entries EXCEPT ![w] = <<>>]
    /\ out' = [out EXCEPT ![w] = <<>>]
    /\ page' = [page EXCEPT ![w] = 0]
    /\ result' = [result EXCEPT ![w] = None]
    /\ history' = [history EXCEPT !.failed_forced = @ \/ force_refresh[w]]
    /\ prov' = Forget(w)
    /\ MODELS_CACHE' = [MODELS_CACHE EXCEPT !.ts = 0]
    /\ UNCHANGED payload

\* Raise with the exception caught and the stored payload served instead
RaiseFallback(w) ==
    /\ pc' = [pc EXCEPT ![w] = "returned"]
    /\ fm_entries' = [fm_entries EXCEPT ![w] = <<>>]
    /\ out' = [out EXCEPT ![w] = <<>>]
    /\ page' = [page EXCEPT ![w] = 0]
    /\ result' = [result EXCEPT ![w] = MODELS_CACHE.data]
    /\ history' = [history EXCEPT !.failed_forced = @ \/ force_refresh[w]]
    /\ prov' = Forget(w)
    /\ UNCHANGED << MODELS_CACHE, payload >>

\* Raise with the exception caught and the listings got so far merged
RaiseKeepingPartial(w) ==
    /\ pc' = [pc EXCEPT ![w] = "merge"]
    /\ page' = [page EXCEPT ![w] = 0]
    /\ history' = [history EXCEPT !.failed_forced = @ \/ force_refresh[w]]
    /\ prov' = Forget(w)
    /\ UNCHANGED << MODELS_CACHE, fm_entries, out, payload, result >>

\* an upstream call raises: the exception leaves _build_models_payload, the
\* locals are dropped and nothing is returned
Raise(w) ==
    /\ pc' = [pc EXCEPT ![w] = "raised"]
    /\ fm_entries' = [fm_entries EXCEPT ![w] = <<>>]
    /\ out' = [out EXCEPT ![w] = <<>>]
    /\ page' = [page EXCEPT ![w] = 0]
    /\ result' = [result EXCEPT ![w] = None]
    /\ history' = [history EXCEPT !.failed_forced = @ \/ force_refresh[w]]
    /\ prov' = Forget(w)
    /\ UNCHANGED << MODELS_CACHE, payload >>

\* fm_entries = _list_foundation_models(client)
ListFoundationModels(w) ==
    /\ pc[w] = "list_fm"
    /\ \/ /\ calls' = [calls EXCEPT ![w].models = @ + 1, ![w].failed = @ + 1]
          /\ Raise(w)
       \/ /\ calls' = [calls EXCEPT ![w].models = @ + 1]
          /\ fm_entries' = [fm_entries EXCEPT ![w] = NormalizeModels(upstream.models, now)]
          /\ pc' = [pc EXCEPT ![w] = "paginate"]
          /\ page' = [page EXCEPT ![w] = 1]
          /\ prov' = [prov EXCEPT !.earlier[w] = { u \in Workers : pc[u] = "merge" }]
          /\ UNCHANGED << MODELS_CACHE, out, payload, result, history >>
    /\ UNCHANGED << now, ticks, upstream, force_refresh, entry >>

\* the summaries of page k of the profile listing
PageSummaries(k) == upstream.pages[k]

\* _list_cross_region_profiles: one turn of the loop over paginator.paginate(...)
ListProfilesPage(w) ==
    /\ pc[w] = "paginate"
    /\ \/ /\ calls' = [calls EXCEPT ![w].pages = @ + 1, ![w].failed = @ + 1]
          /\ Raise(w)
       \/ /\ calls' = [calls EXCEPT ![w].pages = @ + 1]
          /\ out' = [out EXCEPT ![w] = @ \o NormalizePage(PageSummaries(page[w]), now)]
          /\ \/ /\ page[w] < Len(upstream.pages)
                /\ page' = [page EXCEPT ![w] = @ + 1]
                /\ pc' = pc
             \/ /\ page[w] >= Len(upstream.pages)
                /\ page' = [page EXCEPT ![w] = 0]
                /\ pc' = [pc EXCEPT ![w] = "merge"]
          /\ UNCHANGED << MODELS_CACHE, fm_entries, payload, result, history, prov >>
    /\ UNCHANGED << now, ticks, upstream, force_refresh, entry >>

\* StoreData with the payload put in the cache before the loop over the
\* profiles has run
StoreDataUnfinished(w) ==
    /\ pc[w] = "merge"
    /\ LET p == Payload(Dedup(fm_entries[w], out[w]))
       IN  /\ payload' = [payload EXCEPT ![w] = Some(p)]
           /\ MODELS_CACHE' = [MODELS_CACHE EXCEPT
                                 !.data = Some(Payload(Dedup(fm_entries[w], <<>>)))]
           /\ prov' = Wrote(w)
    /\ pc' = [pc EXCEPT ![w] = "stamp"]
    /\ UNCHANGED << now, ticks, upstream, force_refresh, fm_entries, out, page,
                    result, entry, calls, history >>

\* the dedup loop, payload = {...} and MODELS_CACHE["data"] = payload
StoreData(w) ==
    /\ pc[w] = "merge"
    /\ LET p == Payload(Dedup(fm_entries[w], out[w]))
       IN  /\ payload' = [payload EXCEPT ![w] = Some(p)]
           /\ MODELS_CACHE' = [MODELS_CACHE EXCEPT !.data = Some(p)]
           /\ prov' = Wrote(w)
    /\ pc' = [pc EXCEPT ![w] = "stamp"]
    /\ UNCHANGED << now, ticks, upstream, force_refresh, fm_entries, out, page,
                    result, entry, calls, history >>

\* StoreTs with the stamp taken from the first record listed (the reading of
\* the clock when the listing was made) rather than read anew
StoreTsOfListing(w) ==
    /\ pc[w] = "stamp"
    /\ MODELS_CACHE' = [MODELS_CACHE EXCEPT
                          !.ts = IF fm_entries[w] # <<>>
                                 THEN fm_entries[w][1].created ELSE now]
    /\ result' = [result EXCEPT ![w] = payload[w]]
    /\ pc' = [pc EXCEPT ![w] = "returned"]
    /\ history' = [good |-> Some([payload |-> payload[w][1], ts |-> now]),
                   failed_forced |-> FALSE]
    /\ prov' = [prov EXCEPT !.ts = w]
    /\ UNCHANGED << now, ticks, upstream, force_refresh, fm_entries, out, page,
                    payload, entry, calls >>

\* MODELS_CACHE["ts"] = _now() and return payload
StoreTs(w) ==
    /\ pc[w] = "stamp"
    /\ MODELS_CACHE' = [MODELS_CACHE EXCEPT !.ts = now]
    /\ result' = [result EXCEPT ![w] = payload[w]]
    /\ pc' = [pc EXCEPT ![w] = "returned"]
    /\ history' = [good |-> Some([payload |-> payload[w][1], ts |-> now]),
                   failed_forced |-> FALSE]
    /\ prov' = [prov EXCEPT !.ts = w]
    /\ UNCHANGED << now, ticks, upstream, force_refresh, fm_entries, out, page,
                    payload, entry, calls >>

\* the response (or the error) has left the handler: the worker is free again
Finish(w) ==
    /\ pc[w] \in {"returned", "raised"}
    /\ pc' = [pc EXCEPT ![w] = "idle"]
    /\ force_refresh' = [force_refresh EXCEPT ![w] = FALSE]
    /\ fm_entries' = [fm_entries EXCEPT ![w] = <<>>]
    /\ out' = [out EXCEPT ![w] = <<>>]
    /\ page' = [page EXCEPT ![w] = 0]
    /\ payload' = [payload EXCEPT ![w] = None]
    /\ result' = [result EXCEPT ![w] = None]
    /\ entry' = [entry EXCEPT ![w] = NoEntry]
    /\ calls' = [calls EXCEPT ![w] = NoCalls]
    /\ prov' = Forget(w)
    /\ UNCHANGED << MODELS_CACHE, now, ticks, upstream, history >>

Serve(w) ==
    \/ Begin(w)
    \/ ReturnCached(w)
    \/ ListFoundationModels(w)
    \/ ListProfilesPage(w)
    \/ StoreData(w)
    \/ StoreTs(w)
    \/ Finish(w)

\* ----- the environment

\* time.time() moves on (the wall clock is taken never to step back)
Tick ==
    /\ ticks < MaxTicks
    /\ \E d \in TickSteps : now' = now + d
    /\ ticks' = ticks + 1
    /\ UNCHANGED << MODELS_CACHE, upstream, pc, force_refresh, fm_entries, out,
                    page, payload, result, entry, calls, history, prov >>

\* the provider's listings change (never under a paginator that is between
\* two pages of its walk)
UpstreamChangeTo(listings) ==
    /\ \A w \in Workers : pc[w] = "paginate" => page[w] = 1
    /\ \E u \in listings \ {upstream} : upstream' = u
    /\ UNCHANGED << MODELS_CACHE, now, ticks, pc, force_refresh, fm_entries, out,
                    page, payload, result, entry, calls, history, prov >>

UpstreamChange == UpstreamChangeTo(ServiceUpstreams)

UpstreamChangeConc == UpstreamChangeTo(ConcUpstreams)

\* ----- specifications

InitProcess ==
    /\ MODELS_CACHE = [data |-> None, ts |-> 0]
    /\ now \in StartTimes
    /\ ticks = 0
    /\ pc = [w \in Workers |-> "idle"]
    /\ force_refresh = [w \in Workers |-> FALSE]
    /\ fm_entries = [w \in Workers |-> <<>>]
    /\ out = [w \in Workers |-> <<>>]
    /\ page = [w \in Workers |-> 0]
    /\ payload = [w \in Workers |-> None]
    /\ result = [w \in Workers |-> None]
    /\ entry = [w \in Workers |-> NoEntry]
    /\ calls = [w \in Workers |-> NoCalls]
    /\ history = [good |-> None, failed_forced |-> FALSE]
    /\ prov = NoProv

\* the service with its requests served one after the other: worker 1 takes
\* the next request when it has answered the last
Init == InitProcess /\ upstream \in ServiceUpstreams

Next == Serve(1) \/ Tick \/ UpstreamChange

Spec == Init /\ [][Next]_vars

\* one aggregation over every listing within the bounds
InitAgg == InitProcess /\ upstream \in AggUpstreams

NextAgg == Serve(1)

SpecAgg == InitAgg /\ [][NextAgg]_vars

\* the service with the requests of its two workers interleaved, the listings
\* changing under them, at one reading of the clock
InitConc == InitProcess /\ upstream \in ConcUpstreams

NextConc == (\E w \in Workers : Serve(w)) \/ UpstreamChangeConc

SpecConc == InitConc /\ [][NextConc]_vars

\* two workers interleaved under a moving clock, the listings standing still
NextClock == (\E w \in Workers : Serve(w)) \/ Tick

SpecClock == InitConc /\ [][NextClock]_vars

\* ----- vocabulary of the properties

Data(p) == p[1].data

Ids(items) == { items[i].id : i \in DOMAIN items }

NoDuplicateIds(data) ==
    \A i, j \in DOMAIN data : i # j => data[i].id # data[j].id

\* the ids the base-model listing gives
BaseIds == { upstream.models[i].modelId : i \in DOMAIN upstream.models } \ {""}

\* no record of a profile-only id stands before a record of a base-model id
BaseFirst(data) ==
    \A i, j \in DOMAIN data :
        (data[i].id \notin BaseIds /\ data[j].id \in BaseIds) => j < i

\* the catalog w's own listings give
Aggregated(w) == Some(Payload(Dedup(fm_entries[w], out[w])))

\* w is serving a request that began without force_refresh in one of states
NonForced(w, states) ==
    pc[w] # "idle" /\ ~force_refresh[w] /\ entry[w].state \in states

EntryUntouched(w) ==
    MODELS_CACHE.data = entry[w].data /\ MODELS_CACHE.ts = entry[w].ts

\* ----- properties

\* C1: a call without force_refresh made while a payload is stored and younger
\* than 300 seconds takes the cached path, makes no upstream call, and
\* returns exactly the stored payload.
C1_FreshHitServesStored ==
    \A w \in Workers :
        NonForced(w, {"Fresh"}) =>
            /\ pc[w] \in {"cached", "returned"}
            /\ calls[w] = NoCalls
            /\ pc[w] = "returned" => (result[w] # None /\ result[w] = entry[w].data)

C1_Witness ==
    \E w \in Workers :
        /\ NonForced(w, {"Fresh"})
        /\ pc[w] = "returned"
        /\ now - MODELS_CACHE.ts = 299
        /\ result[w] = MODELS_CACHE.data
        /\ Len(Data(result[w])) >= 2

\* C2: a call without force_refresh made when the cache is Empty or its entry
\* is 300 seconds old or older never takes the cached path and requests the
\* base-model listing once and every page of the profile listing once; when
\* it succeeds it leaves the catalog it computed in the cache, with ts the
\* clock's reading, the entry Fresh, and returns that catalog.
C2_StaleOrEmptyRefreshes ==
    /\ [](\A w \in Workers :
            NonForced(w, {"Empty", "Stale"}) =>
                /\ pc[w] # "cached"
                /\ calls[w].models = (IF pc[w] = "list_fm" THEN 0 ELSE 1)
                /\ pc[w] = "list_fm" => calls[w].pages = 0)
    /\ [][\A w \in Workers :
            NonForced(w, {"Empty", "Stale"}) =>
                /\ (pc[w] = "paginate" /\ pc'[w] = "merge")
                      => calls'[w].pages = Len(upstream.pages)
                /\ (pc[w] = "stamp" /\ pc'[w] = "returned")
                      => /\ calls[w] = [models |-> 1, pages |-> calls[w].pages,
                                        failed |-> 0]
                         /\ result'[w] = Aggregated(w)
                         /\ MODELS_CACHE' = [data |-> result'[w], ts |-> now]
                         /\ CacheState(MODELS_CACHE', now') = "Fresh"]_vars

C2_Witness ==
    \E w \in Workers :
        /\ NonForced(w, {"Stale"})
        /\ entry[w].ts + 300 = now
        /\ pc[w] = "returned"
        /\ MODELS_CACHE = [data |-> result[w], ts |-> now]
        /\ result[w] # entry[w].data
        /\ calls[w] = [models |-> 1, pages |-> 3, failed |-> 0]

\* C3: a call with force_refresh never takes the cached path, whatever the
\* state of the cache: it requests the listings, and what it returns is the
\* catalog it computed from them.
C3_ForcedAlwaysAggregates ==
    \A w \in Workers :
        (pc[w] # "idle" /\ force_refresh[w]) =>
            /\ pc[w] # "cached"
            /\ calls[w].models = (IF pc[w] = "list_fm" THEN 0 ELSE 1)
            /\ pc[w] = "returned" =>
                  /\ calls[w].pages >= 1
                  /\ calls[w].failed = 0
                  /\ result[w] = Aggregated(w)

C3_Witness ==
    \E w \in Workers :
        /\ force_refresh[w]
        /\ entry[w].state = "Fresh"
        /\ pc[w] = "returned"
        /\ calls[w].models = 1
        /\ result[w] # None
        /\ result[w] # entry[w].data

\* C4: the cache entry changes only in the two stores of a request whose
\* listings all succeeded: a cache hit and a request whose aggregation failed
\* (in either listing) leave payload and ts as they were when it began.
C4_OnlySuccessMutatesCache ==
    /\ [](\A w \in Workers :
            (\/ pc[w] \in {"cached", "list_fm", "paginate", "raised"}
             \/ (pc[w] = "returned" /\ calls[w] = NoCalls))
                => EntryUntouched(w))
    /\ [][MODELS_CACHE' # MODELS_CACHE =>
            \E w \in Workers :
                /\ pc[w] \in {"merge", "stamp"}
                /\ pc'[w] # pc[w]
                /\ calls[w].models = 1
                /\ calls[w].pages >= 1
                /\ calls[w].failed = 0]_vars

C4_Witness ==
    \E w \in Workers :
        /\ pc[w] = "raised"
        /\ force_refresh[w]
        /\ calls[w] = [models |-> 1, pages |-> 1, failed |-> 1]
        /\ entry[w].state = "Fresh"
        /\ EntryUntouched(w)
        /\ Len(Data(MODELS_CACHE.data)) >= 2

\* C5: after a forced refresh failed, a call without force_refresh made less
\* than 300 seconds after the last successful recomputation takes the cached
\* path, makes no upstream call and returns that recomputation's payload.
C5_FailureIsolation ==
    \A w \in Workers :
        (/\ pc[w] # "idle"
         /\ ~force_refresh[w]
         /\ history.failed_forced
         /\ history.good # None
         /\ now - history.good[1].ts < 300) =>
            /\ pc[w] \in {"cached", "returned"}
            /\ calls[w] = NoCalls
            /\ pc[w] = "returned" => result[w] = Some(history.good[1].payload)

C5_Witness ==
    \E w \in Workers :
        /\ pc[w] = "returned"
        /\ ~force_refresh[w]
        /\ history.failed_forced
        /\ history.good # None
        /\ now - history.good[1].ts = 299
        /\ result[w] = Some(history.good[1].payload)
        /\ Len(Data(result[w])) >= 2
        /\ calls[w] = NoCalls

\* C6: a request one of whose upstream calls failed ends with the error and
\* returns nothing: the stored payload is not served in its place.
C6_FailedRefreshReturnsNoCatalog ==
    \A w \in Workers :
        calls[w].failed > 0 => (pc[w] = "raised" /\ result[w] = None)

C6_Witness ==
    \E w \in Workers :
        /\ NonForced(w, {"Stale"})
        /\ pc[w] = "raised"
        /\ calls[w].failed = 1
        /\ MODELS_CACHE.data # None
        /\ Len(Data(MODELS_CACHE.data)) >= 1
        /\ result[w] = None

\* C7: no two records of a returned catalog, or of a stored payload, have the
\* same id, whatever the two listings hold.
C7_NoDuplicateIds ==
    /\ MODELS_CACHE.data # None => NoDuplicateIds(Data(MODELS_CACHE.data))
    /\ \A w \in Workers :
          /\ result[w] # None => NoDuplicateIds(Data(result[w]))
          /\ payload[w] # None => NoDuplicateIds(Data(payload[w]))

C7_Witness ==
    \E w \in Workers :
        /\ pc[w] = "returned"
        /\ Len(fm_entries[w]) = 2
        /\ Len(out[w]) = 2
        /\ Ids(fm_entries[w]) = Ids(out[w])
        /\ result[w] = MODELS_CACHE.data
        /\ Len(Data(result[w])) = 1

\* C8: in every catalog returned or stored, the records of the base-model
\* listing stand before the records that only the profile listing gives, and
\* a cache hit returns the stored catalog as it is, in that order.
C8_BaseRecordsFirst ==
    /\ MODELS_CACHE.data # None => BaseFirst(Data(MODELS_CACHE.data))
    /\ \A w \in Workers :
          /\ result[w] # None => BaseFirst(Data(result[w]))
          /\ (pc[w] = "returned" /\ calls[w] = NoCalls) => result[w] = entry[w].data

C8_Witness ==
    \E w \in Workers :
        /\ pc[w] = "returned"
        /\ calls[w] = NoCalls
        /\ Len(Data(result[w])) = 3
        /\ Data(result[w])[1].id \in BaseIds
        /\ Data(result[w])[2].id \in BaseIds
        /\ Data(result[w])[3].id \notin BaseIds

\* C9: when an id of the base-model listing is also a profile id or a profile
\* ARN, the one record of that id in the catalog is the base-model record,
\* with the created value the base-model listing gave it.
C9_BaseRecordWins ==
    \A w \in Workers :
        payload[w] # None =>
            \A id \in Ids(fm_entries[w]) :
                \E i \in DOMAIN Data(payload[w]) :
                    /\ Data(payload[w])[i].id = id
                    /\ \E k \in DOMAIN fm_entries[w] :
                          /\ fm_entries[w][k] = Data(payload[w])[i]
                          /\ \A m \in 1 .. (k - 1) : fm_entries[w][m].id # id
                    /\ \A j \in DOMAIN Data(payload[w]) :
                          Data(payload[w])[j].id = id => j = i

C9_Witness ==
    \E w \in Workers :
        /\ pc[w] = "returned"
        /\ payload[w] # None
        /\ Len(fm_entries[w]) = 2
        /\ Len(out[w]) = 2
        /\ out[w][1].id = fm_entries[w][2].id
        /\ out[w][1].created # fm_entries[w][2].created
        /\ out[w][2].id \notin Ids(fm_entries[w])
        /\ Data(payload[w]) = Append(fm_entries[w], out[w][2])

\* C10: while the listings are not all in, and after any of them failed (the
\* base-model listing, or any page of the profile listing), the request has
\* built no payload, returned nothing and stored nothing.
C10_NoPartialCatalog ==
    \A w \in Workers :
        (pc[w] \in {"list_fm", "paginate"} \/ calls[w].failed > 0) =>
            /\ pc[w] \in {"list_fm", "paginate", "raised"}
            /\ payload[w] = None
            /\ result[w] = None
            /\ EntryUntouched(w)

C10_Witness ==
    \E w \in Workers :
        /\ pc[w] = "raised"
        /\ Len(upstream.pages) = 3
        /\ calls[w] = [models |-> 1, pages |-> 2, failed |-> 1]
        /\ payload[w] = None
        /\ result[w] = None
        /\ EntryUntouched(w)


\* ----- C11 to C13, C19: requests interleaved (SpecConc)

\* w is between its decision to recompute and its write of ts
InRefresh(w) == pc[w] \in {"list_fm", "paginate", "merge", "stamp"}

\* C11: under any interleaving of requests, a request that returns a catalog
\* returns a whole one: a request that aggregated returns the deduplicated
\* merge of all it listed, the cache never holds anything but the whole output
\* of the aggregation that last stored data, and a request served from the
\* cache returns that
C11_ReturnsOneFinishedAggregation ==
    [][/\ \A w \in Workers :
            /\ pc'[w] = "returned" /\ calls'[w].models = 1
                  => result'[w] = Some(Payload(Dedup(fm_entries'[w], out'[w])))
            /\ pc'[w] = "returned" => result'[w] # None
            /\ pc[w] = "cached" /\ pc'[w] = "returned" => result'[w] = prov.full
       /\ MODELS_CACHE'.data # None => MODELS_CACHE'.data = prov'.full]_vars

\* a request served from the cache holds its answer while another request,
\* after it, has stored a different catalog and not yet its ts
C11_Witness ==
    \E w, v \in Workers :
        /\ pc[w] = "returned" /\ calls[w] = NoCalls /\ result[w] # None
        /\ pc[v] = "stamp"
        /\ MODELS_CACHE.data = payload[v]
        /\ MODELS_CACHE.data # result[w]
        /\ Len(Data(result[w])) > 0

\* C12: whenever no request stands between its write of data and its write of
\* ts, the data and the ts in the cache were written by the same request (or,
\* at the least, the data is equal to what the request that wrote ts computed)
C12_NoTornEntry ==
    (\A w \in Workers : pc[w] # "stamp") /\ history.good # None
        => \/ prov.data = prov.ts
           \/ MODELS_CACHE.data = Some(history.good[1].payload)

\* C13: two requests without refresh=true are never both inside the
\* decide-list-write sequence, each with its own listing asked of the provider
C13_RefreshMutuallyExclusive ==
    \A w, v \in Workers :
        w # v /\ InRefresh(w) /\ InRefresh(v)
            => ~ /\ ~force_refresh[w] /\ ~force_refresh[v]
                 /\ calls[w].models = 1 /\ calls[v].models = 1

\* C19: no request stores data over the data of a request that asked for its
\* first listing when this one already had all of its listings in hand (unless
\* it stores the very same catalog)
C19_NoLostUpdate ==
    [][\A w \in Workers :
          pc[w] = "merge" /\ pc'[w] = "stamp"
              => w \notin prov.after \/ MODELS_CACHE'.data = MODELS_CACHE.data]_vars

\* ----- C14 to C16: one aggregation over every listing (SpecAgg)

\* w has walked every page of the profile listing
Walked(w) ==
    \/ pc[w] \in {"merge", "stamp"}
    \/ pc[w] = "returned" /\ calls[w].models = 1

\* the summaries of all the pages, in the order of the walk
RECURSIVE Flatten(_)
Flatten(pages) ==
    IF pages = <<>> THEN <<>> ELSE Head(pages) \o Flatten(Tail(pages))

\* how many records a profile summary is to give
Emits(s) ==
    (IF s.inferenceProfileId # "" THEN 1 ELSE 0)
        + (IF s.inferenceProfileArn # "" THEN 1 ELSE 0)

\* records is, summary after summary, what the summaries are to give
RECURSIVE EmittedAs(_, _)
EmittedAs(summaries, records) ==
    IF summaries = <<>> THEN records = <<>>
    ELSE LET s == Head(summaries)
             n == Emits(s)
         IN  /\ Len(records) >= n
             /\ s.inferenceProfileId # "" => records[1].id = s.inferenceProfileId
             /\ s.inferenceProfileArn # "" => records[n].id = s.inferenceProfileArn
             /\ n = 2 => records[1].created = records[2].created
             /\ \A i \in 1..n : records[i] = ModelEntry(records[i].id, records[i].created)
             /\ EmittedAs(Tail(summaries), SubSeq(records, n + 1, Len(records)))

\* C14: a profile summary gives one record if it has an id plus one if it has
\* an ARN, the record of the id before the record of the ARN, both with the
\* same created; a summary with neither gives nothing and stops nothing
C14_ProfileEmitsIdThenArn ==
    \A w \in Workers :
        Walked(w) => EmittedAs(Flatten(upstream.pages), out[w])

\* a summary with an id and a different ARN has given its two records, the
\* request has returned
C14_Witness ==
    \E w \in Workers :
        /\ pc[w] = "returned"
        /\ Len(upstream.pages) = 1 /\ Len(upstream.pages[1]) = 1
        /\ upstream.pages[1][1].inferenceProfileId = "b"
        /\ upstream.pages[1][1].inferenceProfileArn = "c"
        /\ upstream.pages[1][1].createdAt # None
        /\ out[w] = << ModelEntry("b", 500), ModelEntry("c", 500) >>

\* the modelId values of the base-model listing that are not empty, in order
ListedIds ==
    SelectSeq([i \in DOMAIN upstream.models |-> upstream.models[i].modelId],
              LAMBDA mid : mid # "")

C16_FirstOccurrences ==
    \A w \in Workers :
        payload[w] # None =>
            LET items == fm_entries[w] \o out[w]
                data == Data(payload[w])
                FirstAt(id) == CHOOSE i \in DOMAIN items :
                                  /\ items[i].id = id
                                  /\ \A j \in 1..(i - 1) : items[j].id # id
            IN  /\ Ids(data) = Ids(items)
                /\ NoDuplicateIds(data)
                /\ \A k \in DOMAIN data : data[k] = items[FirstAt(data[k].id)]
                /\ \A k, l \in DOMAIN data :
                      k < l => FirstAt(data[k].id) < FirstAt(data[l].id)

\* a base record b, then a profile giving c and b again: the catalog is b, c
C16_Witness ==
    \E w \in Workers :
        /\ payload[w] # None
        /\ [i \in DOMAIN fm_entries[w] |-> fm_entries[w][i].id] = << "b" >>
        /\ [i \in DOMAIN out[w] |-> out[w][i].id] = << "c", "b" >>
        /\ Data(payload[w]) = << fm_entries[w][1], out[w][1] >>

\* ----- C17: the empty catalog (Spec)

\* C17: the cache is without payload only while no aggregation has succeeded;
\* an aggregation that gives no record stores its empty catalog all the same;
\* and a call without force_refresh that finds an empty catalog younger than
\* 300 seconds takes the cached path, asks nothing of the provider and
\* returns that empty catalog
C17_EmptyCatalogIsCached ==
    /\ MODELS_CACHE.data = None => history.good = None
    /\ \A w \in Workers :
          /\ pc[w] = "returned" /\ calls[w].models = 1 /\ Data(result[w]) = <<>>
                => /\ MODELS_CACHE.data = Some(Payload(<<>>))
                   /\ MODELS_CACHE.ts = now => CacheState(MODELS_CACHE, now) = "Fresh"
          /\ NonForced(w, {"Fresh"}) /\ Data(entry[w].data) = <<>>
                => /\ pc[w] \in {"cached", "returned"}
                   /\ calls[w] = NoCalls
                   /\ pc[w] = "returned" => result[w] = Some(Payload(<<>>))

\* 299 seconds after an aggregation that gave no record, a call without
\* force_refresh has returned the empty catalog from the cache
C17_Witness ==
    \E w \in Workers :
        /\ NonForced(w, {"Fresh"})
        /\ pc[w] = "returned"
        /\ calls[w] = NoCalls
        /\ history.good = Some([payload |-> Payload(<<>>), ts |-> now - 299])
        /\ result[w] = Some(Payload(<<>>))
        /\ MODELS_CACHE = [data |-> Some(Payload(<<>>)), ts |-> now - 299]

\* ----- C18: two workers under a moving clock (SpecClock)

====
